---- MODULE Spec2Model ----
(***************************************************************************)
(* turnslate: derive a typed parameter schema from the main locale of a    *)
(* Fluent bundle and write it, with the raw text of every locale, into one *)
(* TypeScript document (src/src/lib.rs).                                   *)
(*                                                                         *)
(* Text is modelled as a sequence of fragments (strings): the literal      *)
(* pieces of a format string and the values put into its holes.  format!   *)
(* and join are concatenations of such sequences, and the readers at the   *)
(* end of the module split a document back into its entries.               *)
(***************************************************************************)
EXTENDS Integers, Sequences, FiniteSets, TLC

\* Bounds of the model.
MaxSize == 4      \* syntax-tree nodes (entries + pattern elements) of a resource
MaxRuns == 2      \* invocations of the program against the same server data

(***************************************************************************)
(* fluent_syntax::ast, as far as lib.rs reads it.                          *)
(***************************************************************************)
VariableNames == {"userName", "photoCount"}
MessageIds == {"hello-user", "shared-photos"}

TextElement == [type |-> "TextElement"]
VariableReference(name) == [type |-> "VariableReference", id |-> name]
NumberLiteral == [type |-> "NumberLiteral", id |-> "1"]
TermReference == [type |-> "TermReference", id |-> "brand"]
Inline(expr) == [type |-> "Inline", expr |-> expr]
Select(selector, variants) ==
    [type |-> "Select", selector |-> selector, variants |-> variants]
Placeable(expression) == [type |-> "Placeable", expression |-> expression]
Pattern(elements) == [elements |-> elements]
Variant(key, default, value) == [key |-> key, default |-> default, value |-> value]

\* Option<T>: None is the empty sequence, Some(v) the sequence of v alone.
None == <<>>
Some(v) == <<v>>

Message(id, value) == [type |-> "Message", id |-> id, value |-> value]
Term == [type |-> "Term", id |-> "brand",
         value |-> Some(Pattern(<<Placeable(Inline(VariableReference("userName")))>>))]
Comment == [type |-> "Comment", id |-> "#", value |-> None]
Junk == [type |-> "Junk", id |-> "?", value |-> None]
Resource(body) == [body |-> body]

(***************************************************************************)
(* std::collections::HashSet<String>.  The value is held as the sequence   *)
(* of its members (no member twice); the order of that sequence is not     *)
(* observable: iteration (HashSet_iter) may visit the members in any       *)
(* order, since the hasher is seeded at random per process.                *)
(***************************************************************************)
Range(s) == {s[i] : i \in DOMAIN s}

HashSet_new == <<>>

\* Faulty variant: Vec::push in place of HashSet::insert.
HashSet_insert_push(set, value) == Append(set, value)

HashSet_insert(set, value) ==
    IF value \in Range(set) THEN set ELSE Append(set, value)

HashSet_len(set) == Len(set)

\* HashSet::union is lazy: it returns an iterator over the members of both
\* sets and changes neither set.
HashSet_union(set, other) == Range(set) \cup Range(other)

Orders(s) ==
    {[i \in DOMAIN s |-> s[p[i]]] :
        p \in {q \in [DOMAIN s -> DOMAIN s] : \A i, j \in DOMAIN s : q[i] = q[j] => i = j}}

HashSet_iter(set) == Orders(set)

(***************************************************************************)
(* visit_pattern, visit_message, parse_nodes (lib.rs:126-177)              *)
(***************************************************************************)
RECURSIVE visit_pattern(_), visit_elements(_, _, _), visit_variants(_, _, _)

\* for variant in variants { result.union(&visit_pattern(&variant.value)); }
\* The iterator union returns is dropped; result is what it was.
visit_variants(result, variants, i) ==
    IF i > Len(variants) THEN result
    ELSE LET unused == HashSet_union(result, visit_pattern(variants[i].value))
         IN  visit_variants(result, variants, i + 1)

visit_element(result, element) ==
    IF element.type = "Placeable"
    THEN LET expression == element.expression IN
         IF expression.type = "Inline"
         THEN IF expression.expr.type = "VariableReference"
              THEN HashSet_insert(result, expression.expr.id)
              ELSE result
         ELSE \* Select { selector, variants }
              IF expression.selector.type = "VariableReference"
              THEN visit_variants(HashSet_insert(result, expression.selector.id),
                                  expression.variants, 1)
              ELSE result
    ELSE result

visit_elements(result, elements, i) ==
    IF i > Len(elements) THEN result
    ELSE visit_elements(visit_element(result, elements[i]), elements, i + 1)

visit_pattern(pattern) == visit_elements(HashSet_new, pattern.elements, 1)

Node(name, comment, ids) == [name |-> name, comment |-> comment, ids |-> ids]

visit_message(message) ==
    Node(message.id, None,
         IF message.value # None THEN visit_pattern(message.value[1])
         ELSE HashSet_new)

RECURSIVE parse_entries(_, _, _)
parse_entries(result, body, i) ==
    IF i > Len(body) THEN result
    ELSE parse_entries(IF body[i].type = "Message"
                       THEN Append(result, visit_message(body[i]))
                       ELSE result,
                       body, i + 1)

\* Faulty variant: a message without a pattern gets no record.
HasValue(entry) == entry.value # None
parse_nodes_valued(ast) == parse_entries(<<>>, SelectSeq(ast.body, HasValue), 1)

parse_nodes(ast) == parse_entries(<<>>, ast.body, 1)

(***************************************************************************)
(* generate_types (lib.rs:86-117) and the locale table of run              *)
(* (lib.rs:50-60).                                                         *)
(***************************************************************************)
RECURSIVE join(_, _)
join(pieces, sep) ==
    IF pieces = <<>> THEN <<>>
    ELSE IF Len(pieces) = 1 THEN pieces[1]
    ELSE pieces[1] \o <<sep>> \o join(Tail(pieces), sep)

Strings(names) == [i \in DOMAIN names |-> <<names[i]>>]

TypesHead == "\nexport type LocalizedMessage = {\n  "
TypesTail == "\n}\n\ntype Vars<T extends string> = Record<T, string | number>\n        "
LangsHead == "export const langs = {\n  "
LangsTail == "\n} as const"

\* Faulty variant: the shape is declared only from two variables on.
format_node_many(node, ids) ==
    <<"'", node.name, "': [">>
    \o (IF HashSet_len(node.ids) > 1
        THEN <<"Vars<'">> \o join(Strings(ids), "' | '") \o <<"'>">>
        ELSE <<>>)
    \o <<"],">>

\* The closure of generate_types: "'{}': [{}],".  ids is the order in which
\* node.ids.into_iter() yields the members.
format_node(node, ids) ==
    <<"'", node.name, "': [">>
    \o (IF HashSet_len(node.ids) > 0
        THEN <<"Vars<'">> \o join(Strings(ids), "' | '") \o <<"'>">>
        ELSE <<>>)
    \o <<"],">>

format_types(nodes, orders) ==
    <<TypesHead>>
    \o join([i \in DOMAIN nodes |-> format_node(nodes[i], orders[i])], "\n  ")
    \o <<TypesTail>>

\* One iteration order for the ids of every node.
IterationOrders(nodes) ==
    {orders \in [DOMAIN nodes -> UNION {HashSet_iter(nodes[i].ids) : i \in DOMAIN nodes}] :
        \A i \in DOMAIN nodes : orders[i] \in HashSet_iter(nodes[i].ids)}

\* std::collections::HashMap::iter: the keys in any order.
HashMap_iter(map) ==
    {order \in [1..Cardinality(DOMAIN map) -> DOMAIN map] :
        \A i, j \in DOMAIN order : order[i] = order[j] => i = j}

\* "'{}': `{}`"; <backtick> stands for the character, which a TLA+ string
\* cannot hold.
format_lang(locale, text) == <<"'", locale, "': <backtick>", text, "<backtick>">>

format_ftls(langs, order) ==
    <<LangsHead>>
    \o join([i \in DOMAIN order |-> format_lang(order[i], langs[order[i]])], ",\n  ")
    \o <<LangsTail>>

\* The runtime-binding preamble (lib.rs:24-48), trimmed; it holds no data.
code ==
    <<"import { FluentBundle, FluentResource } from '@fluent/bundle'",
      "export interface Lang { ... }",
      "export function createLang(locale: keyof typeof langs): Lang { ... }">>

(***************************************************************************)
(* Inputs.  Resources: every syntax tree of at most MaxSize nodes the      *)
(* Fluent grammar allows (a pattern has at least one element, a select at  *)
(* least one variant and exactly one default variant).                     *)
(***************************************************************************)
Inlines == {VariableReference(n) : n \in VariableNames} \cup {NumberLiteral}

RECURSIVE ElementSeqs(_), Elements(_), ValueSeqs(_)

\* The sequences of pattern elements of n nodes in all.
ElementSeqs(n) ==
    IF n = 0 THEN {<<>>}
    ELSE UNION {{<<e>> \o rest : e \in Elements(k), rest \in ElementSeqs(n - k)} :
                    k \in 1..n}

\* The variant values of the variants of one select, m nodes in all.
ValueSeqs(m) ==
    IF m = 0 THEN {<<>>}
    ELSE UNION {{<<Pattern(p)>> \o rest : p \in ElementSeqs(k), rest \in ValueSeqs(m - k)} :
                    k \in 1..m}

Variants(values, default) ==
    [i \in DOMAIN values |-> Variant(i, i = default, values[i])]

\* The pattern elements of k nodes: the element and what its variants hold.
Elements(k) ==
    IF k = 1 THEN {TextElement} \cup {Placeable(Inline(e)) : e \in Inlines}
    ELSE {Placeable(Select(s, Variants(values, d))) :
              s \in Inlines,
              <<values, d>> \in UNION {{<<v, i>> : i \in DOMAIN v} : v \in ValueSeqs(k - 1)}}

Entries(k) ==
    IF k = 1 THEN {Message(id, None) : id \in MessageIds} \cup {Term, Comment, Junk}
    ELSE {Message(id, Some(Pattern(p))) : id \in MessageIds, p \in ElementSeqs(k - 1)}

RECURSIVE Bodies(_)
Bodies(n) ==
    IF n = 0 THEN {<<>>}
    ELSE UNION {{<<e>> \o rest : e \in Entries(k), rest \in Bodies(n - k)} : k \in 1..n}

Resources == {Resource(body) : body \in UNION {Bodies(n) : n \in 0..MaxSize}}

(***************************************************************************)
(* Raw resource texts and what fluent_syntax::parser::parse makes of them. *)
(* The first two are the texts of the tests of lib.rs.                     *)
(***************************************************************************)
HelloFtl == "# Simple things are simple.\nhello-user = Hello, {$userName}!"
SharedFtl == "# Complex things are possible.\nshared-photos = {$userName} {$photoCount -> [one] added a new photo *[other] added {$photoCount} new photos} to {$userGender -> [male] his stream [female] her stream *[other] their stream}."
MenuFtl == "-brand = {$userName}\nmenu-title = Welcome to {-brand}\nhello-user"
CommentFtl == "# Nothing to translate yet."
BrokenFtl == "hello-user = Hello, {$userName"

Texts == {HelloFtl, SharedFtl, MenuFtl, CommentFtl, BrokenFtl}

Var(name) == Placeable(Inline(VariableReference(name)))
TextVariant(key, default) == Variant(key, default, Pattern(<<TextElement>>))

HelloResource ==
    Resource(<<Comment,
               Message("hello-user", Some(Pattern(<<TextElement, Var("userName"), TextElement>>)))>>)

SharedResource ==
    Resource(<<Comment,
               Message("shared-photos", Some(Pattern(
                   <<Var("userName"), TextElement,
                     Placeable(Select(VariableReference("photoCount"),
                        <<TextVariant(1, FALSE),
                          Variant(2, TRUE, Pattern(<<TextElement, Var("photoCount"), TextElement>>))>>)),
                     TextElement,
                     Placeable(Select(VariableReference("userGender"),
                        <<TextVariant(1, FALSE), TextVariant(2, FALSE), TextVariant(3, TRUE)>>)),
                     TextElement>>)))>>)

MenuResource ==
    Resource(<<Term,
               Message("menu-title", Some(Pattern(<<TextElement, Placeable(Inline(TermReference))>>))),
               Message("hello-user", None)>>)

\* Result<Resource, (Resource, Vec<ParserError>)>
Ok(resource) == [ok |-> TRUE, resource |-> resource]
Err(resource) == [ok |-> FALSE, resource |-> resource]

FluentParse(text) ==
    CASE text = HelloFtl -> Ok(HelloResource)
      [] text = SharedFtl -> Ok(SharedResource)
      [] text = MenuFtl -> Ok(MenuResource)
      [] text = CommentFtl -> Ok(Resource(<<Comment>>))
      [] OTHER -> Err(Resource(<<Junk>>))

Locales == {"en", "fr"}

\* What the server may hold for the project: Bundle { main, langs }.
Bundle(main, langs) == [main |-> main, langs |-> langs]
Bundles ==
    {Bundle(main, langs) :
        main \in Locales, langs \in UNION {[S -> Texts] : S \in SUBSET Locales}}

(***************************************************************************)
(* The program: run (lib.rs:14-68), one invocation after another.          *)
(***************************************************************************)
VARIABLES
    server,     \* the bundle the endpoint serves for the project
    runNo,      \* which invocation of the program this is
    pc,         \* where run is
    panic,      \* Option: the message run panicked with
    bundle,     \* Option: what fetch_bundle returned
    ftl,        \* Option: the main locale's text handed to generate_types
    resource,   \* Option: the parsed main locale
    nodes,      \* Option: parse_nodes(resource)
    generated,  \* generate_types's result
    ftls,       \* the locale table
    output,     \* the document
    file,       \* Option: the contents of out_file
    writes,     \* fs::write calls of this invocation that wrote
    written,    \* every document written to out_file, in order
    stdout

vars == <<server, runNo, pc, panic, bundle, ftl, resource, nodes, generated,
          ftls, output, file, writes, written, stdout>>

Init ==
    /\ server \in Bundles
    /\ runNo = 1
    /\ pc = "start"
    /\ panic = None /\ bundle = None /\ ftl = None /\ resource = None /\ nodes = None
    /\ generated = <<>> /\ ftls = <<>> /\ output = <<>>
    /\ file = None /\ writes = 0 /\ written = <<>> /\ stdout = <<>>

\* expect(msg) on None or Err.
Panic(msg) == panic' = Some(msg) /\ pc' = "panicked"

\* fetch_bundle (lib.rs:70-84): the request and the deserialization succeed ...
FetchBundle ==
    /\ pc = "start"
    /\ bundle' = Some(server)
    /\ pc' = "fetched"
    /\ UNCHANGED <<server, runNo, panic, ftl, resource, nodes, generated, ftls,
                   output, file, writes, written, stdout>>

\* ... or one of them fails.
FetchFail ==
    /\ pc = "start"
    /\ \E msg \in {"Failed to fetch data from the server", "Failed to parse json"} :
          Panic(msg)
    /\ UNCHANGED <<server, runNo, bundle, ftl, resource, nodes, generated, ftls,
                   output, file, writes, written, stdout>>

\* Faulty variant: unwrap_or_default() in place of expect.
GetMain_or_default ==
    /\ pc = "fetched"
    /\ ftl' = Some(IF bundle[1].main \in DOMAIN bundle[1].langs
                   THEN bundle[1].langs[bundle[1].main] ELSE "")
    /\ pc' = "generate_types"
    /\ UNCHANGED <<server, runNo, panic, bundle, resource, nodes, generated, ftls,
                   output, file, writes, written, stdout>>

\* bundle.langs.get(&bundle.main).expect("Main FTL does not exist!")
GetMain ==
    /\ pc = "fetched"
    /\ IF bundle[1].main \in DOMAIN bundle[1].langs
       THEN ftl' = Some(bundle[1].langs[bundle[1].main])
            /\ pc' = "generate_types" /\ UNCHANGED panic
       ELSE Panic("Main FTL does not exist!") /\ UNCHANGED ftl
    /\ UNCHANGED <<server, runNo, bundle, resource, nodes, generated, ftls,
                   output, file, writes, written, stdout>>

\* Faulty variant: on Err the resource parsed so far is used.
Parse_lenient ==
    /\ pc = "generate_types"
    /\ resource' = Some(FluentParse(ftl[1]).resource)
    /\ pc' = "parsed"
    /\ UNCHANGED <<server, runNo, panic, bundle, ftl, nodes, generated, ftls,
                   output, file, writes, written, stdout>>

\* parser::parse(ftl).expect("Failed to parse FTL")
Parse ==
    /\ pc = "generate_types"
    /\ LET r == FluentParse(ftl[1]) IN
       IF r.ok
       THEN resource' = Some(r.resource) /\ pc' = "parsed" /\ UNCHANGED panic
       ELSE Panic("Failed to parse FTL") /\ UNCHANGED resource
    /\ UNCHANGED <<server, runNo, bundle, ftl, nodes, generated, ftls,
                   output, file, writes, written, stdout>>

ParseNodes ==
    /\ pc = "parsed"
    /\ nodes' = Some(parse_nodes(resource[1]))
    /\ pc' = "nodes"
    /\ UNCHANGED <<server, runNo, panic, bundle, ftl, resource, generated, ftls,
                   output, file, writes, written, stdout>>

\* The map/collect/format! of generate_types; each node's ids are iterated
\* in an order of the hasher's choosing.
FormatTypes ==
    /\ pc = "nodes"
    /\ \E orders \in IterationOrders(nodes[1]) :
          generated' = format_types(nodes[1], orders)
    /\ pc' = "generated"
    /\ UNCHANGED <<server, runNo, panic, bundle, ftl, resource, nodes, ftls,
                   output, file, writes, written, stdout>>

\* Faulty variant: the table holds the main locale alone.
FormatFtls_main_only ==
    /\ pc = "generated"
    /\ bundle # None
    /\ ftls' = format_ftls(bundle[1].langs, <<bundle[1].main>>)
    /\ pc' = "ftls"
    /\ UNCHANGED <<server, runNo, panic, bundle, ftl, resource, nodes, generated,
                   output, file, writes, written, stdout>>

\* let ftls = format!(...): bundle.langs is iterated in an order of the
\* hasher's choosing.
FormatFtls ==
    /\ pc = "generated"
    /\ bundle # None
    /\ \E order \in HashMap_iter(bundle[1].langs) :
          ftls' = format_ftls(bundle[1].langs, order)
    /\ pc' = "ftls"
    /\ UNCHANGED <<server, runNo, panic, bundle, ftl, resource, nodes, generated,
                   output, file, writes, written, stdout>>

\* let output = vec![code, generated, ftls].join("\n\n")
JoinOutput ==
    /\ pc = "ftls"
    /\ output' = join(<<code, generated, ftls>>, "\n\n")
    /\ pc' = "output"
    /\ UNCHANGED <<server, runNo, panic, bundle, ftl, resource, nodes, generated,
                   ftls, file, writes, written, stdout>>

\* fs::write(&out_file, &output).expect("Failed to write file")
WriteFile ==
    /\ pc = "output"
    /\ file' = Some(output)
    /\ writes' = writes + 1
    /\ written' = Append(written, output)
    /\ pc' = "written"
    /\ UNCHANGED <<server, runNo, panic, bundle, ftl, resource, nodes, generated,
                   ftls, output, stdout>>

\* The destination cannot be opened for writing.
WriteFail ==
    /\ pc = "output"
    /\ Panic("Failed to write file")
    /\ UNCHANGED <<server, runNo, bundle, ftl, resource, nodes, generated,
                   ftls, output, file, writes, written, stdout>>

\* println!("Generated translations for {} languages", bundle.langs.len())
Println ==
    /\ pc = "written"
    /\ stdout' = Append(stdout, <<"Generated translations for ",
                                  ToString(Cardinality(DOMAIN bundle[1].langs)),
                                  " languages">>)
    /\ pc' = "done"
    /\ UNCHANGED <<server, runNo, panic, bundle, ftl, resource, nodes, generated,
                   ftls, output, file, writes, written>>

\* main (main.rs:3-9): the program is started again; out_file and the
\* server's data are as the last invocation left them.
Main ==
    /\ pc \in {"done", "panicked"}
    /\ runNo < MaxRuns
    /\ runNo' = runNo + 1
    /\ pc' = "start"
    /\ panic' = None /\ bundle' = None /\ ftl' = None /\ resource' = None
    /\ nodes' = None /\ generated' = <<>> /\ ftls' = <<>> /\ output' = <<>>
    /\ writes' = 0
    /\ UNCHANGED <<server, file, written, stdout>>

Next ==
    \/ FetchBundle \/ FetchFail \/ GetMain \/ Parse \/ ParseNodes \/ FormatTypes
    \/ FormatFtls \/ JoinOutput \/ WriteFile \/ WriteFail \/ Println \/ Main

Spec == Init /\ [][Next]_vars

(***************************************************************************)
(* parse_nodes and the rendering of generate_types on every resource of    *)
(* the bound, as the tests of lib.rs call parse_nodes (lib.rs:189-190).    *)
(***************************************************************************)
InitExtract ==
    /\ server = Bundle("en", <<>>)
    /\ runNo = 1
    /\ pc = "parsed"
    /\ resource \in {Some(r) : r \in Resources}
    /\ panic = None /\ bundle = None /\ ftl = None /\ nodes = None
    /\ generated = <<>> /\ ftls = <<>> /\ output = <<>>
    /\ file = None /\ writes = 0 /\ written = <<>> /\ stdout = <<>>

NextExtract == ParseNodes \/ FormatTypes

SpecExtract == InitExtract /\ [][NextExtract]_vars

(***************************************************************************)
(* Readers: a generated text split back into its entries.                  *)
(***************************************************************************)
IndexOf(text, fragment) ==
    IF \E i \in DOMAIN text : text[i] = fragment
    THEN CHOOSE i \in DOMAIN text :
            text[i] = fragment /\ \A j \in 1..(i - 1) : text[j] # fragment
    ELSE 0

Between(text, head, tail) ==
    LET h == IndexOf(text, head)
        t == IndexOf(text, tail)
    IN  IF h = 0 \/ t < h THEN <<>> ELSE SubSeq(text, h + 1, t - 1)

RECURSIVE Split(_, _)
Split(text, sep) ==
    LET i == IndexOf(text, sep)
    IN  IF i = 0 THEN <<text>>
        ELSE <<SubSeq(text, 1, i - 1)>> \o Split(SubSeq(text, i + 1, Len(text)), sep)

Lines(body, sep) == IF body = <<>> THEN <<>> ELSE Split(body, sep)

SchemaEntries(text) == Lines(Between(text, TypesHead, TypesTail), "\n  ")
LocaleEntries(text) == Lines(Between(text, LangsHead, LangsTail), ",\n  ")

\* A schema entry is  ' key ': [ shape ],
QuotedKey(entry) ==
    /\ Len(entry) >= 4
    /\ entry[1] = "'" /\ entry[3] = "': [" /\ entry[Len(entry)] = "],"
EntryKey(entry) == entry[2]
EntryShape(entry) == SubSeq(entry, 4, Len(entry) - 1)

\* A parameter shape is  Vars<' name ' | ' name ... '>
IsVars(shape) ==
    /\ Len(shape) >= 3
    /\ shape[1] = "Vars<'" /\ shape[Len(shape)] = "'>"
    /\ \A i \in 2..(Len(shape) - 1) : (shape[i] = "' | '") <=> (i % 2 = 1)
ShapeNames(shape) ==
    IF shape = <<>> THEN <<>>
    ELSE [i \in 1..((Len(shape) - 1) \div 2) |-> shape[2 * i]]
EntryNames(entry) == ShapeNames(EntryShape(entry))

NoDuplicates(s) == \A i, j \in DOMAIN s : s[i] = s[j] => i = j

IsMessage(entry) == entry.type = "Message"
Messages(ast) == SelectSeq(ast.body, IsMessage)

IsVariable(inline) == inline.type = "VariableReference"
IsSelect(element) == element.type = "Placeable" /\ element.expression.type = "Select"

\* Every variable a pattern refers to: in its inline placeables, as the
\* selector of its selects, and in the variants of its selects, at any depth.
RECURSIVE References(_)
References(pattern) ==
    UNION {LET e == pattern.elements[i] IN
           IF e.type # "Placeable" THEN {}
           ELSE IF e.expression.type = "Inline"
                THEN (IF IsVariable(e.expression.expr) THEN {e.expression.expr.id} ELSE {})
                ELSE (IF IsVariable(e.expression.selector)
                      THEN {e.expression.selector.id} ELSE {})
                     \cup UNION {References(e.expression.variants[v].value) :
                                    v \in DOMAIN e.expression.variants}
           : i \in DOMAIN pattern.elements}

MessageReferences(message) ==
    IF message.value = None THEN {} ELSE References(message.value[1])

\* The references of a pattern in reading order: placeables left to right, a
\* select's selector before its variants.
RECURSIVE ReadingOrder(_), VariantsReadingOrder(_)
VariantsReadingOrder(variants) ==
    IF variants = <<>> THEN <<>>
    ELSE ReadingOrder(variants[1].value.elements) \o VariantsReadingOrder(Tail(variants))
ReadingOrder(elements) ==
    IF elements = <<>> THEN <<>>
    ELSE LET e == elements[1] IN
         (IF e.type # "Placeable" THEN <<>>
          ELSE IF e.expression.type = "Inline"
               THEN (IF IsVariable(e.expression.expr) THEN <<e.expression.expr.id>> ELSE <<>>)
               ELSE (IF IsVariable(e.expression.selector)
                     THEN <<e.expression.selector.id>> ELSE <<>>)
                    \o VariantsReadingOrder(e.expression.variants))
         \o ReadingOrder(Tail(elements))

FirstReference(message, name) ==
    IndexOf(ReadingOrder(message.value[1].elements), name)

(***************************************************************************)
(* Claims about parse_nodes and generate_types, under SpecExtract.         *)
(***************************************************************************)

\* C1: the variable set recorded for a message is the set of all variables
\* its pattern refers to: inline, as selectors, and inside every variant of
\* every select at any depth.  (The code drops what the variants hold.)
C1_SetIsAllReferences ==
    nodes # None =>
        LET msgs == Messages(resource[1]) IN
        \A i \in DOMAIN nodes[1] \cap DOMAIN msgs :
            Range(nodes[1][i].ids) = MessageReferences(msgs[i])

\* C2: parse_nodes returns one record per Message entry, named by the
\* message id, in declaration order; Term, Comment and Junk entries give no
\* record and no error; a Message without a pattern gives a record with no
\* variables; no Message entry, no record.
C2_OneRecordPerMessage ==
    nodes # None =>
        LET msgs == Messages(resource[1]) IN
        /\ panic = None
        /\ Len(nodes[1]) = Len(msgs)
        /\ \A i \in DOMAIN msgs :
              /\ nodes[1][i].name = msgs[i].id
              /\ msgs[i].value = None => HashSet_len(nodes[1][i].ids) = 0

C2_Witness ==
    /\ nodes # None
    /\ Len(nodes[1]) = 2
    /\ \E i, j, k \in DOMAIN resource[1].body :
          /\ i < j /\ j < k
          /\ resource[1].body[i].type = "Term"
          /\ IsMessage(resource[1].body[j]) /\ resource[1].body[j].value = None
          /\ IsMessage(resource[1].body[k]) /\ resource[1].body[k].value # None
          /\ resource[1].body[j].id # resource[1].body[k].id

\* C3: a variable name occurs at most once in a record and in the schema
\* entry rendered for it, however often the message refers to it.
C3_NamesOccurOnce ==
    /\ nodes # None => \A i \in DOMAIN nodes[1] : NoDuplicates(nodes[1][i].ids)
    /\ generated # <<>> =>
          \A i \in DOMAIN SchemaEntries(generated) :
              NoDuplicates(EntryNames(SchemaEntries(generated)[i]))

\* $photoCount at the top level, as a selector and inside a variant.
C3_Witness ==
    /\ generated # <<>>
    /\ resource[1].body =
          <<Message("shared-photos", Some(Pattern(
              <<Var("photoCount"),
                Placeable(Select(VariableReference("photoCount"),
                    <<Variant(1, TRUE, Pattern(<<Var("photoCount")>>))>>))>>)))>>
    /\ EntryNames(SchemaEntries(generated)[1]) = <<"photoCount">>

\* C8: generate_types emits one schema entry per record, in the order of
\* the records, keyed by the record's name in quotes; a record without
\* variables declares no parameters, a record with variables declares
\* Vars<..> of exactly its variables (Vars maps each to string | number).
C8_OneEntryPerRecord ==
    generated # <<>> =>
        LET entries == SchemaEntries(generated) IN
        /\ generated[1] = TypesHead /\ generated[Len(generated)] = TypesTail
        /\ Len(entries) = Len(nodes[1])
        /\ \A i \in DOMAIN entries :
              /\ QuotedKey(entries[i])
              /\ EntryKey(entries[i]) = nodes[1][i].name
              /\ IF HashSet_len(nodes[1][i].ids) = 0
                 THEN EntryShape(entries[i]) = <<>>
                 ELSE /\ IsVars(EntryShape(entries[i]))
                      /\ Len(EntryNames(entries[i])) = HashSet_len(nodes[1][i].ids)
                      /\ Range(EntryNames(entries[i])) = Range(nodes[1][i].ids)

C8_Witness ==
    /\ generated # <<>>
    /\ Len(nodes[1]) = 2
    /\ HashSet_len(nodes[1][1].ids) = 0
    /\ HashSet_len(nodes[1][2].ids) = 2
    /\ nodes[1][1].name # nodes[1][2].name
    /\ Len(SchemaEntries(generated)) = 2

\* C9: the variable names of a schema entry are listed in the order of
\* their first reference in the message.  (The code lists them in the
\* order the HashSet yields them.)
C9_FirstAppearanceOrder ==
    generated # <<>> =>
        LET entries == SchemaEntries(generated)
            msgs == Messages(resource[1])
        IN  \A i \in DOMAIN entries \cap DOMAIN msgs :
                LET names == EntryNames(entries[i]) IN
                \A j, k \in DOMAIN names :
                    j < k => FirstReference(msgs[i], names[j]) < FirstReference(msgs[i], names[k])

\* C10: a select whose selector is no variable reference adds no name for
\* the selector, and every variable its variants refer to is in the
\* message's set.  (The code does not visit the variants of such a select.)
C10_VariantsOfOtherSelectors ==
    nodes # None =>
        LET msgs == Messages(resource[1]) IN
        \A i \in DOMAIN nodes[1] \cap DOMAIN msgs :
            msgs[i].value # None =>
                \A e \in Range(msgs[i].value[1].elements) :
                    IsSelect(e) /\ ~IsVariable(e.expression.selector) =>
                        \A v \in DOMAIN e.expression.variants :
                            References(e.expression.variants[v].value)
                                \subseteq Range(nodes[1][i].ids)

(***************************************************************************)
(* Claims about run, under Spec.                                           *)
(***************************************************************************)
MainPresent == server.main \in DOMAIN server.langs
MainParses == MainPresent /\ FluentParse(server.langs[server.main]).ok

\* C4: the locale table of the written document has one entry per key of
\* bundle.langs, no more and no fewer, and each entry holds the raw text of
\* its locale as it came.
C4_EveryLocaleOnce ==
    file # None =>
        LET entries == LocaleEntries(file[1]) IN
        /\ MainParses
        /\ Len(entries) = Cardinality(DOMAIN server.langs)
        /\ {entries[i][2] : i \in DOMAIN entries} = DOMAIN server.langs
        /\ \A i \in DOMAIN entries :
              entries[i] = <<"'", entries[i][2], "': <backtick>",
                             server.langs[entries[i][2]], "<backtick>">>

\* Two locales, the one that is not main a text the parser rejects.
C4_Witness ==
    /\ file # None
    /\ server = Bundle("en", [l \in Locales |-> IF l = "en" THEN HelloFtl ELSE BrokenFtl])
    /\ Len(LocaleEntries(file[1])) = 2

\* C5: without the main key in bundle.langs run ends in the panic of the
\* lookup and no document is ever written.
C5_NoMainNoDocument ==
    ~MainPresent =>
        /\ file = None /\ written = <<>> /\ writes = 0
        /\ pc \in {"start", "fetched", "panicked"}
        /\ pc = "panicked" /\ bundle # None => panic = Some("Main FTL does not exist!")

C5_Witness ==
    /\ ~MainPresent
    /\ DOMAIN server.langs # {}
    /\ runNo = MaxRuns
    /\ pc = "panicked" /\ panic = Some("Main FTL does not exist!")

UpToNameOrder(document) ==
    [preamble |-> SubSeq(document, 1, IndexOf(document, TypesHead)),
     schema |-> [i \in DOMAIN SchemaEntries(document) |->
                    [key |-> EntryKey(SchemaEntries(document)[i]),
                     names |-> Range(EntryNames(SchemaEntries(document)[i]))]],
     langs |-> LocaleEntries(document)]

C7_SameDocumentEveryRun ==
    \A i, j \in DOMAIN written : UpToNameOrder(written[i]) = UpToNameOrder(written[j])

====
